---- MODULE Spec2Model ----
(***************************************************************************)
(* A model of youtube-check.go: the country matcher, the geo resolver,     *)
(* the dial function of the probe client and the report builder.           *)
(*                                                                         *)
(* A Go string is modelled as the sequence of its characters.  An ASCII    *)
(* character is the one-character string that holds it; a CJK character is *)
(* written by its code point ("U+7F8E") and takes three bytes in UTF-8.    *)
(***************************************************************************)
EXTENDS Integers, Sequences, FiniteSets, TLC

VARIABLES
  pc,                \* where main is
  results,           \* main's results
  cursor,            \* the index of the result the running loop handles next
  problematicCount,  \* main's problematicCount
  counted,           \* history: the indices of the results main counted
  nodes,             \* the nodes of saveProblematicNodes
  listed,            \* history: the indices of the results put into nodes
  encountered,       \* history: nodes as they were before the sort
  file,              \* youtube_cn.txt
  wrote,             \* whether saveProblematicNodes wrote the file
  stale,             \* history: whether youtube_cn.txt was there when main started
  nodeName,          \* an argument of the country matcher
  exitCountry,       \* an argument of isCountryMismatch
  expectedCountry,   \* what getExpectedCountryFromName returned
  mismatch,          \* what isCountryMismatch returned
  expectedAgain,     \* what a second call of getExpectedCountryFromName returned
  addr,              \* the target address of a dial
  dial,              \* what DialContext did
  resp,              \* what client.Do returned to getExitCountry
  country            \* what getExitCountry returned


\* ------------------------------------------------------------- strings

\* The ASCII characters the model uses, in increasing byte value.
AsciiOrder ==
  << "\t", "\n", " ", "-", "/", "0", "1", "2", "3", "4", "5", "6", "7", "8", "9", ":",
     "A", "B", "C", "D", "E", "F", "G", "H", "I", "J", "K", "L", "M",
     "N", "O", "P", "Q", "R", "S", "T", "U", "V", "W", "X", "Y", "Z", "[", "]",
     "a", "b", "c", "d", "e", "f", "g", "h", "i", "j", "k", "l", "m",
     "n", "o", "p", "q", "r", "s", "t", "u", "v", "w", "x", "y", "z", "|" >>

\* The CJK characters of the token table and of the report header, in
\* increasing code point (which is their order in UTF-8 too).
CJKOrder ==
  << "U+4E9A", "U+4FC4", "U+5170", "U+5176", "U+5178", "U+51FA", "U+5229", "U+52A0", "U+533A", "U+5357", "U+5370", "U+53E3", "U+53F0", "U+540D", "U+56FD", "U+571F", "U+5761", "U+57CE", "U+57DF", "U+58EB", "U+5927", "U+5BB6", "U+5BBE", "U+5C3C", "U+5DF4", "U+5EA6", "U+5EF7", "U+5F8B", "U+5FB7", "U+6001", "U+610F", "U+62DC", "U+62FF", "U+65AF", "U+65B0", "U+65E5", "U+672C", "U+6765", "U+6839", "U+6CD5", "U+6CE2", "U+6CF0", "U+6E2F", "U+6E7E", "U+6FB3", "U+70B9", "U+7259", "U+72B6", "U+72EE", "U+73ED", "U+745E", "U+79F0", "U+7F57", "U+7F8E", "U+8033", "U+8054", "U+8282", "U+82F1", "U+8377", "U+83F2", "U+897F", "U+8D8A", "U+8FEA", "U+914B", "U+963F", "U+975E", "U+97E9", "U+9999", "U+9A6C" >>

CJK == {CJKOrder[i] : i \in DOMAIN CJKOrder}
IsCJK(c) == c \in CJK

\* The bytes a character takes in UTF-8.
ByteLen(c) == IF IsCJK(c) THEN 3 ELSE 1

\* Go's len(s): the number of bytes of s.
RECURSIVE len(_)
len(s) == IF s = <<>> THEN 0 ELSE ByteLen(Head(s)) + len(Tail(s))

\* The rank of a character in byte order: every CJK character (first byte
\* 0xE4 or more) is above every ASCII character.
Ord(c) ==
  IF IsCJK(c) THEN Len(AsciiOrder) + (CHOOSE i \in DOMAIN CJKOrder : CJKOrder[i] = c)
  ELSE CHOOSE i \in DOMAIN AsciiOrder : AsciiOrder[i] = c

\* Go's a > b on strings: byte-wise lexicographic order.
RECURSIVE StrGreater(_, _)
StrGreater(a, b) ==
  IF a = <<>> THEN FALSE
  ELSE IF b = <<>> THEN TRUE
  ELSE IF Head(a) = Head(b) THEN StrGreater(Tail(a), Tail(b))
  ELSE Ord(Head(a)) > Ord(Head(b))

\* strings.ToUpper: a lower-case letter becomes its upper-case letter, every
\* other character (digits, punctuation, CJK) stays.
UpperOf ==
  ("a" :> "A") @@ ("b" :> "B") @@ ("c" :> "C") @@ ("d" :> "D") @@ ("e" :> "E") @@
  ("f" :> "F") @@ ("g" :> "G") @@ ("h" :> "H") @@ ("i" :> "I") @@ ("j" :> "J") @@
  ("k" :> "K") @@ ("l" :> "L") @@ ("m" :> "M") @@ ("n" :> "N") @@ ("o" :> "O") @@
  ("p" :> "P") @@ ("q" :> "Q") @@ ("r" :> "R") @@ ("s" :> "S") @@ ("t" :> "T") @@
  ("u" :> "U") @@ ("v" :> "V") @@ ("w" :> "W") @@ ("x" :> "X") @@ ("y" :> "Y") @@
  ("z" :> "Z")
RECURSIVE ToUpper(_)
ToUpper(s) ==
  IF s = <<>> THEN <<>>
  ELSE <<IF Head(s) \in DOMAIN UpperOf THEN UpperOf[Head(s)] ELSE Head(s)>>
       \o ToUpper(Tail(s))

IsSpace(c) == c \in {" ", "\t", "\n"}

\* strings.TrimSpace: s without its leading and trailing white space.
TrimSpace(s) ==
  LET inner == {i \in DOMAIN s : ~IsSpace(s[i])}
  IN  IF inner = {} THEN <<>>
      ELSE SubSeq(s, CHOOSE i \in inner : \A j \in inner : i <= j,
                     CHOOSE i \in inner : \A j \in inner : i >= j)

\* strings.Index(s, c) for a one-character c: the first position of c in s
\* (from 1), or 0 when s does not hold c (Go's -1).
Index(s, c) ==
  IF \E i \in DOMAIN s : s[i] = c
  THEN CHOOSE i \in DOMAIN s : s[i] = c /\ \A j \in 1..(i - 1) : s[j] /= c
  ELSE 0

\* strings.Contains(s, substr).
Contains(s, substr) ==
  \E i \in 1..(Len(s) - Len(substr) + 1) :
     \A j \in 1..Len(substr) : s[i + j - 1] = substr[j]

\* ------------------------------------------------------- country matcher

\* countryNameMap, in the order the source lists it.  The Go value is a
\* map: the order below is only the base the enumerations are built from.
countryNameMap ==
  << [key |-> <<"U+7F8E", "U+56FD">>, code |-> <<"U", "S">>],
     [key |-> <<"U+7F8E">>, code |-> <<"U", "S">>],
     [key |-> <<"U", "S">>, code |-> <<"U", "S">>],
     [key |-> <<"U+9999", "U+6E2F">>, code |-> <<"H", "K">>],
     [key |-> <<"U+6E2F">>, code |-> <<"H", "K">>],
     [key |-> <<"H", "K">>, code |-> <<"H", "K">>],
     [key |-> <<"U+53F0", "U+6E7E">>, code |-> <<"T", "W">>],
     [key |-> <<"U+53F0">>, code |-> <<"T", "W">>],
     [key |-> <<"T", "W">>, code |-> <<"T", "W">>],
     [key |-> <<"U+65E5", "U+672C">>, code |-> <<"J", "P">>],
     [key |-> <<"U+65E5">>, code |-> <<"J", "P">>],
     [key |-> <<"J", "P">>, code |-> <<"J", "P">>],
     [key |-> <<"U+97E9", "U+56FD">>, code |-> <<"K", "R">>],
     [key |-> <<"U+97E9">>, code |-> <<"K", "R">>],
     [key |-> <<"K", "R">>, code |-> <<"K", "R">>],
     [key |-> <<"U+65B0", "U+52A0", "U+5761">>, code |-> <<"S", "G">>],
     [key |-> <<"U+72EE", "U+57CE">>, code |-> <<"S", "G">>],
     [key |-> <<"U+65B0">>, code |-> <<"S", "G">>],
     [key |-> <<"S", "G">>, code |-> <<"S", "G">>],
     [key |-> <<"U+82F1", "U+56FD">>, code |-> <<"G", "B">>],
     [key |-> <<"U+82F1">>, code |-> <<"G", "B">>],
     [key |-> <<"U", "K">>, code |-> <<"G", "B">>],
     [key |-> <<"G", "B">>, code |-> <<"G", "B">>],
     [key |-> <<"U+5FB7", "U+56FD">>, code |-> <<"D", "E">>],
     [key |-> <<"U+5FB7">>, code |-> <<"D", "E">>],
     [key |-> <<"D", "E">>, code |-> <<"D", "E">>],
     [key |-> <<"U+6CD5", "U+56FD">>, code |-> <<"F", "R">>],
     [key |-> <<"U+6CD5">>, code |-> <<"F", "R">>],
     [key |-> <<"F", "R">>, code |-> <<"F", "R">>],
     [key |-> <<"U+52A0", "U+62FF", "U+5927">>, code |-> <<"C", "A">>],
     [key |-> <<"U+52A0">>, code |-> <<"C", "A">>],
     [key |-> <<"C", "A">>, code |-> <<"C", "A">>],
     [key |-> <<"U+6FB3", "U+5927", "U+5229", "U+4E9A">>, code |-> <<"A", "U">>],
     [key |-> <<"U+6FB3">>, code |-> <<"A", "U">>],
     [key |-> <<"A", "U">>, code |-> <<"A", "U">>],
     [key |-> <<"U+4FC4", "U+7F57", "U+65AF">>, code |-> <<"R", "U">>],
     [key |-> <<"U+4FC4">>, code |-> <<"R", "U">>],
     [key |-> <<"R", "U">>, code |-> <<"R", "U">>],
     [key |-> <<"U+5370", "U+5EA6">>, code |-> <<"I", "N">>],
     [key |-> <<"U+5370">>, code |-> <<"I", "N">>],
     [key |-> <<"I", "N">>, code |-> <<"I", "N">>],
     [key |-> <<"U+5DF4", "U+897F">>, code |-> <<"B", "R">>],
     [key |-> <<"B", "R">>, code |-> <<"B", "R">>],
     [key |-> <<"U+963F", "U+6839", "U+5EF7">>, code |-> <<"A", "R">>],
     [key |-> <<"A", "R">>, code |-> <<"A", "R">>],
     [key |-> <<"U+571F", "U+8033", "U+5176">>, code |-> <<"T", "R">>],
     [key |-> <<"T", "R">>, code |-> <<"T", "R">>],
     [key |-> <<"U+8377", "U+5170">>, code |-> <<"N", "L">>],
     [key |-> <<"N", "L">>, code |-> <<"N", "L">>],
     [key |-> <<"U+610F", "U+5927", "U+5229">>, code |-> <<"I", "T">>],
     [key |-> <<"I", "T">>, code |-> <<"I", "T">>],
     [key |-> <<"U+897F", "U+73ED", "U+7259">>, code |-> <<"E", "S">>],
     [key |-> <<"E", "S">>, code |-> <<"E", "S">>],
     [key |-> <<"U+745E", "U+58EB">>, code |-> <<"C", "H">>],
     [key |-> <<"C", "H">>, code |-> <<"C", "H">>],
     [key |-> <<"U+745E", "U+5178">>, code |-> <<"S", "E">>],
     [key |-> <<"S", "E">>, code |-> <<"S", "E">>],
     [key |-> <<"U+6CE2", "U+5170">>, code |-> <<"P", "L">>],
     [key |-> <<"P", "L">>, code |-> <<"P", "L">>],
     [key |-> <<"U+9A6C", "U+6765", "U+897F", "U+4E9A">>, code |-> <<"M", "Y">>],
     [key |-> <<"U+9A6C">>, code |-> <<"M", "Y">>],
     [key |-> <<"M", "Y">>, code |-> <<"M", "Y">>],
     [key |-> <<"U+6CF0", "U+56FD">>, code |-> <<"T", "H">>],
     [key |-> <<"U+6CF0">>, code |-> <<"T", "H">>],
     [key |-> <<"T", "H">>, code |-> <<"T", "H">>],
     [key |-> <<"U+8D8A", "U+5357">>, code |-> <<"V", "N">>],
     [key |-> <<"U+8D8A">>, code |-> <<"V", "N">>],
     [key |-> <<"V", "N">>, code |-> <<"V", "N">>],
     [key |-> <<"U+83F2", "U+5F8B", "U+5BBE">>, code |-> <<"P", "H">>],
     [key |-> <<"U+83F2">>, code |-> <<"P", "H">>],
     [key |-> <<"P", "H">>, code |-> <<"P", "H">>],
     [key |-> <<"U+5370", "U+5C3C">>, code |-> <<"I", "D">>],
     [key |-> <<"U+5370", "U+5EA6", "U+5C3C", "U+897F", "U+4E9A">>, code |-> <<"I", "D">>],
     [key |-> <<"I", "D">>, code |-> <<"I", "D">>],
     [key |-> <<"U+963F", "U+8054", "U+914B">>, code |-> <<"A", "E">>],
     [key |-> <<"U+8FEA", "U+62DC">>, code |-> <<"A", "E">>],
     [key |-> <<"A", "E">>, code |-> <<"A", "E">>],
     [key |-> <<"U+5357", "U+975E">>, code |-> <<"Z", "A">>],
     [key |-> <<"Z", "A">>, code |-> <<"Z", "A">>] >>

NumKeys == Len(countryNameMap)

\* How many enumerations of the map the model tells apart.
MaxIterOrders == 3
IterOrders == 0..(MaxIterOrders - 1)

\* One enumeration of the map by "for key, code := range countryNameMap":
\* Go leaves the order unspecified and changes it from one range statement
\* to the next.  Enumeration k starts k entries into the listed order and
\* runs backwards when k is odd.  The result is sortedKeys before the sort.
RECURSIVE RangeMapFrom(_, _)
RangeMapFrom(k, i) ==
  IF i > NumKeys THEN <<>>
  ELSE LET p == ((i - 1 + k) % NumKeys) + 1
       IN  <<countryNameMap[IF k % 2 = 1 THEN NumKeys + 1 - p ELSE p]>>
           \o RangeMapFrom(k, i + 1)
RangeMap(k) == RangeMapFrom(k, 1)

Swap(s, i, j) == [s EXCEPT ![i] = s[j], ![j] = s[i]]

\* The inner loop of the length sort, for one i: j from i+1 to the end.
RECURSIVE KeyInnerLoop(_, _, _)
KeyInnerLoop(s, i, j) ==
  IF j > Len(s) THEN s
  ELSE IF len(s[i].key) < len(s[j].key)
       THEN KeyInnerLoop(Swap(s, i, j), i, j + 1)
       ELSE KeyInnerLoop(s, i, j + 1)

RECURSIVE KeyOuterLoop(_, _)
KeyOuterLoop(s, i) ==
  IF i > Len(s) THEN s ELSE KeyOuterLoop(KeyInnerLoop(s, i, i + 1), i + 1)

\* The keys sorted from long to short (by byte length).
SortKeysByLen(s) == KeyOuterLoop(s, 1)

\* sortedKeys as getExpectedCountryFromName builds it, for the enumerations
\* 0 .. n-1 (entry k+1 is the one of enumeration k).
RECURSIVE SortedKeysUpTo(_)
SortedKeysUpTo(n) ==
  IF n = 0 THEN <<>>
  ELSE Append(SortedKeysUpTo(n - 1), SortKeysByLen(RangeMap(n - 1)))
sortedKeys == SortedKeysUpTo(MaxIterOrders)

\* upperKey of the scan, for every entry of sortedKeys.
RECURSIVE UpperKeysOf(_)
UpperKeysOf(keys) ==
  IF keys = <<>> THEN <<>> ELSE <<ToUpper(Head(keys).key)>> \o UpperKeysOf(Tail(keys))
RECURSIVE UpperKeysUpTo(_)
UpperKeysUpTo(n) ==
  IF n = 0 THEN <<>> ELSE Append(UpperKeysUpTo(n - 1), UpperKeysOf(sortedKeys[n]))
upperKey == UpperKeysUpTo(MaxIterOrders)

\* The scan of sortedKeys (enumeration k): the code of the first key whose
\* upper-case form nameUpper contains, or "" when there is none.
ScanKeys(k, nameUpper) ==
  LET found == {i \in 1..NumKeys : Contains(nameUpper, upperKey[k + 1][i])}
  IN  IF found = {} THEN <<>>
      ELSE sortedKeys[k + 1][CHOOSE i \in found : \A j \in found : i <= j].code

\* The part of the name the inference looks at: what follows the first "|".
AfterBar(name) ==
  LET idx == Index(name, "|")
  IN  IF idx /= 0 THEN SubSeq(name, idx + 1, Len(name)) ELSE name

\* The body of getExpectedCountryFromName(name), with the map enumerated
\* in order k.
InferExpectedCountry(name, k) ==
  ScanKeys(k, ToUpper(TrimSpace(AfterBar(name))))

\* The display names the loaded proxies are drawn from: a name with one
\* token, a name with none (and a tab in it), and a name with two tokens of
\* the same length ("US" and "CA").
NodeNames ==
  {<<"U+9999", "U+6E2F", " ", "0", "1">>,
   <<"U", "n", "n", "a", "m", "e", "d", "\t", "7">>,
   <<"U", "S", "-", "C", "A">>}

\* InferExpectedCountry for the names of the run, computed once.
expectedOfNodeName ==
  [name \in NodeNames |-> [k \in IterOrders |-> InferExpectedCountry(name, k)]]

\* getExpectedCountryFromName(name), with the map enumerated in order k (for
\* a name of the run the result is read from the table above).
getExpectedCountryFromName(name, k) ==
  IF name \in NodeNames THEN expectedOfNodeName[name][k]
  ELSE InferExpectedCountry(name, k)

NA == <<"N", "/", "A">>

\* isCountryMismatch without the test for "N/A".
isCountryMismatchNoSentinel(name, exit, k) ==
  IF exit = <<>> THEN FALSE
  ELSE LET expected == getExpectedCountryFromName(name, k)
       IN  IF expected = <<>> THEN FALSE
           ELSE expected /= exit

\* isCountryMismatch(nodeName, exitCountry); k is the enumeration of the map
\* its call of getExpectedCountryFromName meets.
isCountryMismatch(name, exit, k) ==
  IF exit = <<>> \/ exit = NA THEN FALSE
  ELSE LET expected == getExpectedCountryFromName(name, k)
       IN  IF expected = <<>> THEN FALSE
           ELSE expected /= exit


\* ----------------------------------------------------------- geo resolver

\* The HTTP status codes a reply of the geolocation endpoint is drawn from.
StatusCodes == {200, 204, 400, 403, 404, 429, 500, 502, 503}

\* The country codes a reply's countryCode field is drawn from.
ReplyCodes == {<<>>, <<"U", "S">>}

\* The bodies of a reply: text that is no JSON, a JSON array, or a JSON
\* object whose countryCode member is absent, null, a number or a string.
Bodies ==
  {[json |-> "malformed", member |-> "absent", value |-> <<>>],
   [json |-> "array", member |-> "absent", value |-> <<>>],
   [json |-> "object", member |-> "absent", value |-> <<>>],
   [json |-> "object", member |-> "null", value |-> <<>>],
   [json |-> "object", member |-> "number", value |-> <<>>]}
  \cup {[json |-> "object", member |-> "string", value |-> c] : c \in ReplyCodes}

\* What client.Do(req) gives: an error (no reply: the dial failed, the
\* request timed out), or a reply with a status code and a body.
NoBody == [json |-> "malformed", member |-> "absent", value |-> <<>>]
GeoResponses ==
  {[err |-> TRUE, StatusCode |-> 0, body |-> NoBody]}
  \cup {[err |-> FALSE, StatusCode |-> s, body |-> b] : s \in StatusCodes, b \in Bodies}

\* json.NewDecoder(resp.Body).Decode(&result) for the struct with the one
\* string field CountryCode: an error for text that is no JSON, for a JSON
\* value that is no object and for a countryCode that is no string; an
\* absent or null member leaves the field empty.
Decode(body) ==
  IF body.json /= "object" THEN [err |-> TRUE, CountryCode |-> <<>>]
  ELSE IF body.member = "number" THEN [err |-> TRUE, CountryCode |-> <<>>]
  ELSE IF body.member = "string" THEN [err |-> FALSE, CountryCode |-> body.value]
  ELSE [err |-> FALSE, CountryCode |-> <<>>]

\* getExitCountry(client), given what the client's Do returns.  The reply's
\* status code is never read.
getExitCountry(reply) ==
  IF reply.err THEN NA
  ELSE LET result == Decode(reply.body)
       IN  IF result.err THEN NA
           ELSE IF result.CountryCode /= <<>> THEN result.CountryCode
           ELSE NA

\* ------------------------------------------------------ probe client dial

MaxUint16 == 65535

\* The last position of the one-character c in s, or 0.
LastIndex(s, c) ==
  IF \E i \in DOMAIN s : s[i] = c
  THEN CHOOSE i \in DOMAIN s : s[i] = c /\ \A j \in (i + 1)..Len(s) : s[j] /= c
  ELSE 0

HasChar(s, c) == \E i \in DOMAIN s : s[i] = c

AddrError == [err |-> TRUE, host |-> <<>>, port |-> <<>>]

\* net.SplitHostPort(hostport): "host:port" or "[host]:port" split at the
\* last colon; an error for a missing port, a second colon in a host
\* without brackets and a misplaced bracket.
SplitHostPort(hostport) ==
  LET i == LastIndex(hostport, ":")
      n == Len(hostport)
  IN  IF i = 0 THEN AddrError
      ELSE IF hostport[1] = "["
      THEN LET end == Index(hostport, "]")
           IN  IF end = 0 THEN AddrError
               ELSE IF end = n THEN AddrError
               ELSE IF end + 1 /= i THEN AddrError
               ELSE IF HasChar(SubSeq(hostport, 2, n), "[") THEN AddrError
               ELSE IF HasChar(SubSeq(hostport, end + 1, n), "]") THEN AddrError
               ELSE [err |-> FALSE, host |-> SubSeq(hostport, 2, end - 1),
                     port |-> SubSeq(hostport, i + 1, n)]
      ELSE IF HasChar(SubSeq(hostport, 1, i - 1), ":") THEN AddrError
      ELSE IF HasChar(hostport, "[") \/ HasChar(hostport, "]") THEN AddrError
      ELSE [err |-> FALSE, host |-> SubSeq(hostport, 1, i - 1),
            port |-> SubSeq(hostport, i + 1, n)]

IsDigit(c) == c \in {"0", "1", "2", "3", "4", "5", "6", "7", "8", "9"}

\* The value of the first n digits of s.
RECURSIVE DecimalValue(_, _)
DecimalValue(s, n) ==
  IF n = 0 THEN 0
  ELSE LET hi == DecimalValue(s, n - 1)
           v == 10 * hi + (Ord(s[n]) - Ord("0"))
       IN  IF hi > MaxUint16 \/ v > MaxUint16 THEN MaxUint16 + 1 ELSE v

\* strconv.ParseUint(s, 10, 16): an error for the empty string, for any
\* character that is no decimal digit (a sign too) and for a value above
\* 65535.
ParseUint(s) ==
  IF s = <<>> \/ \E i \in DOMAIN s : ~IsDigit(s[i]) THEN [err |-> TRUE, val |-> 0]
  ELSE IF DecimalValue(s, Len(s)) > MaxUint16 THEN [err |-> TRUE, val |-> MaxUint16]
  ELSE [err |-> FALSE, val |-> DecimalValue(s, Len(s))]

\* The DialContext of the transport createClient builds, for target addr:
\* whether it returned an error before the proxy's dial, and else the
\* metadata it handed to proxy.DialContext.
DialContext(target) ==
  LET hp == SplitHostPort(target)
  IN  IF hp.err THEN [err |-> TRUE, called |-> FALSE, Host |-> <<>>, DstPort |-> 0]
      ELSE LET port == ParseUint(hp.port)
               u16Port == IF ~port.err THEN port.val % (MaxUint16 + 1) ELSE 0
           IN  [err |-> FALSE, called |-> TRUE, Host |-> hp.host, DstPort |-> u16Port]

\* ---------------------------------------------------------- report builder

Success == <<"S", "u", "c", "c", "e", "s", "s">>
Failed == <<"F", "a", "i", "l", "e", "d">>
ZZ == <<"Z", "Z">>

\* A Result of main (Name, Status, Region, Info, ExitCountry).
Result(Name, Status, Region, Info, ExitCountry) ==
  [Name |-> Name, Status |-> Status, Region |-> Region, Info |-> Info,
   ExitCountry |-> ExitCountry]

\* "result.ExitCountry == "" || result.ExitCountry == "N/A"": the exit
\* country of a failed node is unknown.
ExitUnknown(result) == result.ExitCountry = <<>> \/ result.ExitCountry = NA

\* One round of main's counting loop for result, with the map enumerated in
\* order k: whether the result is counted as problematic.
CountsAsProblematic(result, k) ==
  IF isCountryMismatch(result.Name, result.ExitCountry, k) THEN TRUE
  ELSE IF result.Status /= Success THEN ~ExitUnknown(result)
  ELSE FALSE

\* The country code saveProblematicNodes stores with a node: the expected
\* country of its name (enumeration k), "ZZ" when there is none.
NodeCountryCode(result, k) ==
  LET countryCode == getExpectedCountryFromName(result.Name, k)
  IN  IF countryCode = <<>> THEN ZZ ELSE countryCode

\* One round of the collecting loop of saveProblematicNodes: nodes after
\* result, where k1 is the enumeration isCountryMismatch meets and k2 the
\* one the call of getExpectedCountryFromName after it meets.
CollectNode(acc, result, k1, k2) ==
  IF isCountryMismatch(result.Name, result.ExitCountry, k1)
  THEN Append(acc, [result |-> result, countryCode |-> NodeCountryCode(result, k2)])
  ELSE IF result.Status /= Success /\ ~ExitUnknown(result)
  THEN Append(acc, [result |-> result, countryCode |-> NodeCountryCode(result, k2)])
  ELSE acc

\* The inner loop of the sort of the nodes, for one i: j from i+1 to the end.
RECURSIVE NodeInnerLoop(_, _, _)
NodeInnerLoop(s, i, j) ==
  IF j > Len(s) THEN s
  ELSE IF StrGreater(s[i].countryCode, s[j].countryCode)
       THEN NodeInnerLoop(Swap(s, i, j), i, j + 1)
       ELSE NodeInnerLoop(s, i, j + 1)

RECURSIVE NodeOuterLoop(_, _)
NodeOuterLoop(s, i) ==
  IF i > Len(s) THEN s ELSE NodeOuterLoop(NodeInnerLoop(s, i, i + 1), i + 1)

\* The sort with its outer loop run once only.
SortNodesOnePass(s) == NodeInnerLoop(s, 1, 2)

\* The nodes sorted by country code, as saveProblematicNodes sorts them.
SortNodes(s) == NodeOuterLoop(s, 1)

\* The header line of the report, without its line break.
HeaderFields ==
  << <<"U+8282", "U+70B9", "U+540D", "U+79F0">>,
     <<"Y", "o", "u", "T", "u", "b", "e", "U+72B6", "U+6001">>,
     <<"U+533A", "U+57DF">>,
     <<"U+51FA", "U+53E3", "U+56FD", "U+5BB6">> >>
Header == HeaderFields[1] \o <<"\t">> \o HeaderFields[2] \o <<"\t">>
          \o HeaderFields[3] \o <<"\t">> \o HeaderFields[4] \o <<"\n">>

\* The line of one node: "%s\t%s\t%s\t%s\n" of the name, the status as
\* Success or Failed, the region and the exit country, the last two "N/A"
\* when empty.
FormatLine(result) ==
  LET status == IF result.Status /= Success THEN Failed ELSE result.Status
      region == IF result.Region = <<>> THEN NA ELSE result.Region
      exit == IF result.ExitCountry = <<>> THEN NA ELSE result.ExitCountry
  IN  result.Name \o <<"\t">> \o status \o <<"\t">> \o region \o <<"\t">>
      \o exit \o <<"\n">>

\* builder.String(): the header and one line for each node, in order.
RECURSIVE WriteLines(_, _)
WriteLines(builder, rest) ==
  IF rest = <<>> THEN builder
  ELSE WriteLines(builder \o FormatLine(Head(rest).result), Tail(rest))
ReportText(sorted) == WriteLines(Header, sorted)

\* ------------------------------------------------------------- the run

\* How many proxies the loader returns at most.
MaxNodes == 3

\* What unlock.TestYouTube returns (Status, Region, Info).
YouTubeResults ==
  {[Status |-> Success, Region |-> <<"U", "S">>, Info |-> <<>>],
   [Status |-> Failed, Region |-> <<>>, Info |-> <<"e", "r", "r">>]}

NoFile == [exists |-> FALSE, data |-> <<>>]
\* youtube_cn.txt as an earlier run may have left it.
OldReport == [exists |-> TRUE, data |-> Header]

mainVars == <<results, cursor, problematicCount, counted, nodes, listed, encountered, file, wrote,
              stale>>
matchVars == <<nodeName, exitCountry, expectedCountry, mismatch, expectedAgain>>
dialVars == <<addr, dial>>
geoVars == <<resp, country>>
vars == <<pc, mainVars, matchVars, dialVars, geoVars>>

Undefined == <<"?">>
NoDial == [err |-> FALSE, called |-> FALSE, Host |-> <<>>, DstPort |-> 0]

MainIdle ==
  /\ results = <<>> /\ cursor = 1 /\ problematicCount = 0 /\ counted = {}
  /\ nodes = <<>> /\ listed = {} /\ encountered = <<>> /\ file = NoFile
  /\ wrote = FALSE /\ stale = FALSE
MatchIdle ==
  /\ nodeName = <<>> /\ exitCountry = <<>> /\ expectedCountry = Undefined
  /\ mismatch = FALSE /\ expectedAgain = Undefined
DialIdle == addr = <<>> /\ dial = NoDial
GeoIdle == resp = [err |-> TRUE, StatusCode |-> 0, body |-> NoBody] /\ country = Undefined

\* main after flag.Parse: no result yet; youtube_cn.txt may be there from
\* an earlier run.
Init ==
  /\ pc = "probe"
  /\ results = <<>> /\ cursor = 1 /\ problematicCount = 0 /\ counted = {}
  /\ nodes = <<>> /\ listed = {} /\ encountered = <<>>
  /\ file \in {NoFile, OldReport}
  /\ stale = file.exists
  /\ wrote = FALSE
  /\ MatchIdle /\ DialIdle /\ GeoIdle

\* LoadProxies returned no proxy: main prints and exits with status 1.
NoProxies ==
  /\ pc = "probe" /\ results = <<>>
  /\ pc' = "exit"
  /\ UNCHANGED <<mainVars, matchVars, dialVars, geoVars>>

\* One round of the probe loop, for the next proxy: its name, the result of
\* unlock.TestYouTube and the exit country getExitCountry makes of the reply.
Probe ==
  /\ pc = "probe" /\ Len(results) < MaxNodes
  /\ \E name \in NodeNames, result \in YouTubeResults, r \in GeoResponses :
       results' = Append(results,
                         Result(name, result.Status, result.Region, result.Info,
                                getExitCountry(r)))
  /\ UNCHANGED <<pc, cursor, problematicCount, counted, nodes, listed, encountered, file, wrote,
                 stale, matchVars, dialVars, geoVars>>

\* The probe loop is over (there was at least one proxy); the counting loop
\* starts.  The table main prints in between changes no state.
EndProbe ==
  /\ pc = "probe" /\ Len(results) >= 1
  /\ pc' = "count" /\ cursor' = 1 /\ problematicCount' = 0
  /\ UNCHANGED <<results, counted, nodes, listed, encountered, file, wrote,
                 stale, matchVars, dialVars, geoVars>>

\* One round of the counting loop.
CountStep ==
  /\ pc = "count" /\ cursor <= Len(results)
  /\ \E k \in IterOrders :
       IF CountsAsProblematic(results[cursor], k)
       THEN problematicCount' = problematicCount + 1 /\ counted' = counted \cup {cursor}
       ELSE UNCHANGED <<problematicCount, counted>>
  /\ cursor' = cursor + 1
  /\ UNCHANGED <<pc, results, nodes, listed, encountered, file, wrote,
                 stale, matchVars, dialVars, geoVars>>

\* "if problematicCount > 0": main calls saveProblematicNodes, or else
\* goes on to delete the old list.
EndCount ==
  /\ pc = "count" /\ cursor > Len(results)
  /\ pc' = IF problematicCount > 0 THEN "save" ELSE "remove"
  /\ cursor' = 1
  /\ UNCHANGED <<results, problematicCount, counted, nodes, listed, encountered, file,
                 wrote, stale, matchVars, dialVars, geoVars>>

\* One round of the collecting loop of saveProblematicNodes.
CollectStep ==
  /\ pc = "save" /\ cursor <= Len(results)
  /\ \E k1 \in IterOrders, k2 \in IterOrders :
       /\ nodes' = CollectNode(nodes, results[cursor], k1, k2)
       /\ listed' = IF Len(nodes') > Len(nodes) THEN listed \cup {cursor} ELSE listed
  /\ cursor' = cursor + 1
  /\ UNCHANGED <<pc, results, problematicCount, counted, encountered, file, wrote,
                 stale, matchVars, dialVars, geoVars>>

\* The rest of saveProblematicNodes: nothing when there is no node, else
\* the sort and os.WriteFile; then main prints and returns.
WriteReport ==
  /\ pc = "save" /\ cursor > Len(results)
  /\ encountered' = nodes
  /\ IF Len(nodes) = 0
     THEN UNCHANGED <<nodes, file, wrote>>
     ELSE /\ nodes' = SortNodes(nodes)
          /\ file' = [exists |-> TRUE, data |-> ReportText(nodes')]
          /\ wrote' = TRUE
  /\ pc' = "done"
  /\ UNCHANGED <<results, cursor, problematicCount, counted, listed, stale, matchVars, dialVars, geoVars>>

\* main's else branch without the os.Remove.
KeepOldReport ==
  /\ pc = "remove"
  /\ pc' = "done"
  /\ UNCHANGED <<results, cursor, problematicCount, counted, nodes, listed, encountered,
                 file, wrote, stale, matchVars, dialVars, geoVars>>

\* main's else branch: os.Stat finds the old list and os.Remove deletes it,
\* or there is none.
RemoveOldReport ==
  /\ pc = "remove"
  /\ file' = IF file.exists THEN NoFile ELSE file
  /\ pc' = "done"
  /\ UNCHANGED <<results, cursor, problematicCount, counted, nodes, listed, encountered, wrote,
                 stale, matchVars, dialVars, geoVars>>

Next ==
  \/ NoProxies \/ Probe \/ EndProbe \/ CountStep \/ EndCount
  \/ CollectStep \/ WriteReport \/ RemoveOldReport

Spec == Init /\ [][Next]_vars

\* ------------------------------------------------- the country matcher alone

\* How many fragments a name of the matcher's inputs is made of at most.
MaxFrags == 3

\* The fragments: "ALPHA", " | ", "<Xiang><Gang> 01" (Hong Kong in Chinese),
\* "China" and "us".
Fragments ==
  {<<"A", "L", "P", "H", "A">>,
   <<" ", "|", " ">>,
   <<"U+9999", "U+6E2F", " ", "0", "1">>,
   <<"C", "h", "i", "n", "a">>,
   <<"u", "s">>}

RECURSIVE NamesOf(_)
NamesOf(n) ==
  IF n = 0 THEN {<<>>}
  ELSE NamesOf(n - 1) \cup {a \o f : a \in NamesOf(n - 1), f \in Fragments}

\* The node names and the exit countries isCountryMismatch is called with.
MatchNames == NamesOf(MaxFrags)
MatchExits == {<<>>, NA, <<"H", "K">>, <<"U", "S">>}

InitMatch ==
  /\ pc = "match"
  /\ nodeName \in MatchNames /\ exitCountry \in MatchExits
  /\ expectedCountry = Undefined /\ mismatch = FALSE /\ expectedAgain = Undefined
  /\ MainIdle /\ DialIdle /\ GeoIdle

\* A call of isCountryMismatch(nodeName, exitCountry), and the expected
\* country its call of getExpectedCountryFromName returned.
CallMismatch ==
  /\ pc = "match"
  /\ \E k \in IterOrders :
       /\ expectedCountry' = getExpectedCountryFromName(nodeName, k)
       /\ mismatch' = isCountryMismatch(nodeName, exitCountry, k)
  /\ pc' = "matched"
  /\ UNCHANGED <<nodeName, exitCountry, expectedAgain, mainVars, dialVars, geoVars>>

\* A later call of getExpectedCountryFromName(nodeName).
CallAgain ==
  /\ pc = "matched"
  /\ \E k \in IterOrders : expectedAgain' = getExpectedCountryFromName(nodeName, k)
  /\ pc' = "again"
  /\ UNCHANGED <<nodeName, exitCountry, expectedCountry, mismatch, mainVars, dialVars,
                 geoVars>>

NextMatch == CallMismatch \/ CallAgain
SpecMatch == InitMatch /\ [][NextMatch]_vars

\* ------------------------------------------------------------ the dial alone

\* How many parts a target address of the dial's inputs is made of at most.
MaxAddrParts == 3

AddrParts ==
  {<<"h">>, <<":">>, <<"8", "0">>, <<"6", "5", "5", "3", "5">>,
   <<"6", "5", "5", "3", "6">>, <<"x">>, <<"[", "h", "]">>, <<"]">>}

RECURSIVE AddrsOf(_)
AddrsOf(n) ==
  IF n = 0 THEN {<<>>}
  ELSE AddrsOf(n - 1) \cup {a \o f : a \in AddrsOf(n - 1), f \in AddrParts}

InitDial ==
  /\ pc = "dial"
  /\ addr \in AddrsOf(MaxAddrParts) /\ dial = NoDial
  /\ MainIdle /\ MatchIdle /\ GeoIdle

\* The transport calls DialContext with the target address.
Dial ==
  /\ pc = "dial"
  /\ dial' = DialContext(addr)
  /\ pc' = "dialed"
  /\ UNCHANGED <<addr, mainVars, matchVars, geoVars>>

SpecDial == InitDial /\ [][Dial]_vars

\* ---------------------------------------------------- the geo resolver alone

InitGeo ==
  /\ pc = "geo"
  /\ resp \in GeoResponses /\ country = Undefined
  /\ MainIdle /\ MatchIdle /\ DialIdle

\* A call of getExitCountry whose client.Do returns resp.
Resolve ==
  /\ pc = "geo"
  /\ country' = getExitCountry(resp)
  /\ pc' = "resolved"
  /\ UNCHANGED <<resp, mainVars, matchVars, dialVars>>

SpecGeo == InitGeo /\ [][Resolve]_vars

\* ------------------------------------------------------------ the claims

\* C1: isCountryMismatch returns true if and only if the exit country is a
\* known code (neither empty nor "N/A"), the name yields an expected code
\* and the two differ; when either is absent it returns false.
C1_MismatchIffBothKnownAndDiffer ==
  pc \in {"matched", "again"} =>
    /\ mismatch <=> /\ exitCountry /= <<>> /\ exitCountry /= NA
                    /\ expectedCountry /= <<>>
                    /\ expectedCountry /= exitCountry
    /\ (exitCountry \in {<<>>, NA} \/ expectedCountry = <<>>) => ~mismatch

\* C1 at work: a known exit country, an expected one, and they differ.
C1_Witness ==
  /\ pc = "matched" /\ mismatch
  /\ exitCountry = <<"U", "S">> /\ expectedCountry = <<"H", "K">>

\* A record is problematic, given the expected country of its name: a
\* country mismatch, or a status other than Success with a known exit.
Problematic(result, expected) ==
  \/ /\ ~ExitUnknown(result) /\ expected /= <<>> /\ expected /= result.ExitCountry
  \/ /\ result.Status /= Success /\ ~ExitUnknown(result)

\* C2: a record is in the list saveProblematicNodes builds, and counted by
\* main, exactly when it is a country mismatch or its status is not
\* Success and its exit country is known.
C2_CountedAndListedExactlyProblematic ==
  pc = "done" =>
    \A n \in DOMAIN results :
      \E k \in IterOrders :
        LET p == Problematic(results[n], getExpectedCountryFromName(results[n].Name, k))
        IN  /\ (n \in counted) <=> p
            /\ problematicCount > 0 => ((n \in listed) <=> p)

C4_ListSortedByCountryCode ==
  pc = "done" /\ wrote =>
    /\ \A a \in DOMAIN nodes : \A b \in DOMAIN nodes :
         a < b => /\ ~StrGreater(nodes[a].countryCode, nodes[b].countryCode)
                  /\ nodes[a].countryCode = ZZ => nodes[b].countryCode = ZZ
    /\ file.data = ReportText(nodes)

\* C4 at work: three nodes that the sort had to reorder, the last without
\* an expected code.
C4_Witness ==
  /\ pc = "done" /\ wrote /\ Len(nodes) = MaxNodes /\ nodes /= encountered
  /\ nodes[1].countryCode /= ZZ /\ nodes[MaxNodes].countryCode = ZZ

\* C5: a node name containing "ALPHA" is never inferred as "PH".
C5_AlphaNeverPH ==
  pc = "matched" /\ Contains(nodeName, <<"A", "L", "P", "H", "A">>) =>
    expectedCountry /= <<"P", "H">>

\* C6: the dial fails, without calling the proxy's dial, whenever the
\* target address is malformed or its port is no number within 0..65535.
C6_BadAddressFailsDial ==
  pc = "dialed" =>
    LET hp == SplitHostPort(addr)
    IN  (hp.err \/ ParseUint(hp.port).err) => dial.err /\ ~dial.called

\* C7: getExitCountry returns a country code only for a 2xx reply that
\* carries a non-empty code, and "N/A" in every other case.
C7_CodeOnlyFromSuccessfulReply ==
  pc = "resolved" =>
    LET ok == /\ ~resp.err /\ resp.StatusCode \in 200..299
              /\ resp.body.json = "object" /\ resp.body.member = "string"
              /\ resp.body.value /= <<>>
    IN  country = IF ok THEN resp.body.value ELSE NA

\* The n-th smallest of a set of numbers.
NthOf(S, n) == CHOOSE x \in S : Cardinality({y \in S : y < x}) = n - 1

\* text split at every sep, as a reader of the report does.
Split(text, sep) ==
  LET seps == {p \in DOMAIN text : text[p] = sep}
      count == Cardinality(seps) + 1
  IN  [n \in 1..count |->
         SubSeq(text,
                IF n = 1 THEN 1 ELSE NthOf(seps, n - 1) + 1,
                IF n = count THEN Len(text) ELSE NthOf(seps, n) - 1)]

\* The lines of a text that ends with a line break.
LinesOf(text) ==
  LET parts == Split(text, "\n") IN SubSeq(parts, 1, Len(parts) - 1)

\* C8: the written file, split on line breaks and tabs, is the header and
\* one line of four fields for each node: the name, the status as Success
\* or Failed, the region and the exit country, "N/A" for an empty one.
C8_ReportRoundTrip ==
  pc = "done" /\ wrote =>
    LET lines == LinesOf(file.data)
    IN  /\ Len(lines) = Len(nodes) + 1
        /\ Split(lines[1], "\t") = HeaderFields
        /\ \A n \in DOMAIN nodes :
             LET r == nodes[n].result
             IN  Split(lines[n + 1], "\t") =
                   << r.Name,
                      IF r.Status = Success THEN Success ELSE Failed,
                      IF r.Region = <<>> THEN NA ELSE r.Region,
                      IF r.ExitCountry = <<>> THEN NA ELSE r.ExitCountry >>

\* C9: nodes with the same country code are written in the order in which
\* they were met in the results.
C9_SortIsStable ==
  pc = "done" /\ wrote =>
    \A code \in {nodes[n].countryCode : n \in DOMAIN nodes} :
      LET HasCode(node) == node.countryCode = code
      IN  SelectSeq(nodes, HasCode) = SelectSeq(encountered, HasCode)

\* C10: getExpectedCountryFromName returns the same code for a name in
\* whatever order the map is enumerated.
C10_InferenceDeterministic ==
  pc = "again" => expectedAgain = expectedCountry

====
